---- MODULE Spec2Model ----
(***************************************************************************)
(* State-machine model of the SoundAnalyzer feature engine                 *)
(* (src/src/Analyzer.cpp, SoundAnalyzer.h, AnalyzerConfig.h).              *)
(*                                                                         *)
(* Spec: one Analyzer<T> instance: construction, setConfig, Begin, End,    *)
(* destruction and the per-frame operations, with allocation failures.    *)
(* SpecShared: two instances of one template instantiation, which share   *)
(* the namespace-level array DefaultRanges and the function-local static  *)
(* of getConfig; configuration calls, destruction and getConfig.          *)
(*                                                                         *)
(* Pointers are integers: nullptr is 0, an allocation made by `new` is a   *)
(* positive identity that no live allocation has, and Garbage stands for   *)
(* the indeterminate value of a pointer member that has no initializer.    *)
(* The heap records, for every identity, whether it is live and how many   *)
(* elements it holds.                                                      *)
(*                                                                         *)
(* Begin() tests the result of every `new` against nullptr, so a failing   *)
(* allocation is modelled as `new` returning nullptr (the behaviour the    *)
(* code's own checks presuppose) or as the end of the program.             *)
(*                                                                         *)
(* lastOp records the last operation: its name, engine, result and the     *)
(* pointers it went through; the properties at the end read it.  For the   *)
(* operations whose numbers are modelled, arg holds the content of the     *)
(* caller's array and val the values the operation computed.               *)
(*                                                                         *)
(* SpecFeatures, SpecRms, SpecYin and SpecSignature run one configured     *)
(* instance on arrays drawn from bounded sets and compute what getFeatures,*)
(* rms, getPitch and getSignature compute.  Magnitudes and samples are     *)
(* small integers; the quotients of getFeatures are exact fractions        *)
(* <<n, d>>, the values of getPitch and getSignature are floats <<m, e>>.  *)
(***************************************************************************)
EXTENDS Integers, Sequences, FiniteSets, TLC

(* ------------------------------ bounds -------------------------------- *)
\* identities available per engine and kind of object
MaxGen == 2
\* allocation failures injected in one run
MaxFails == 1
\* passes of the rescaling loop that change DefaultRanges in one run
MaxRescales == 1
\* leading signature entries that vary in the inputs of getSignatureHash
MaxSigVary == 1

Engines == {1, 2}

(* ------------------- AnalyzerConfig.h constants ------------------------ *)
ANALYZER_DEFAULT_GAIN == 75
\* 5.012, held in thousandths
ANALYZER_DEFAULT_MICSENS == 5012
ANALYZER_DEFAULT_SAMPLEFREQ == 44100
ANALYZER_DEFAULT_FFTLENGTH == 512
\* 0.85, held in hundredths
ANALYZER_DEFAULT_ROLLOFF_PERCENTILE == 85
ANALYZER_DEFAULT_FUZZFACTOR == 32
ANALYZER_DEFAULT_NUMRANGES == 6
ANALYZER_DEFAULT_RANGES_256 == <<5, 10, 20, 40, 80, 256>>
ANALYZER_DEFAULT_RANGES_512 == <<10, 20, 40, 80, 160, 512>>
ANALYZER_DEFAULT_MFCC_COEFF == 13

(* ------------------------------ pointers ------------------------------ *)
nullptr == 0
\* indeterminate value of a pointer member without initializer; never an
\* identity of the heap
Garbage == -1

\* the six owned objects End() releases, in its order
EndOrder == <<"signal", "spectrum", "Signature", "FFT", "mfcc", "yin">>
Kinds == {EndOrder[i] : i \in 1..Len(EndOrder)}
KindNo == [signal |-> 1, spectrum |-> 2, Signature |-> 3, FFT |-> 4, mfcc |-> 5, yin |-> 6]

\* the g-th identity `new` can hand out for an object of kind k of engine e
Id(e, k, g) == 100 * e + 10 * g + KindNo[k]
Gens == 1..MaxGen
AllIds == {Id(e, k, g) : e \in Engines, k \in Kinds, g \in Gens}
IdsOf(e) == {Id(e, k, g) : k \in Kinds, g \in Gens}
\* the Features member array of engine e (part of the object, not of the heap)
FeaturesOf(e) == 100 * e
\* a buffer owned by the caller (Signal / Spectrum / Sig arguments)
CallerBuf == 900

(* --------------------------- configurations --------------------------- *)
\* Config.ranges is a pointer: to the namespace array DefaultRanges or to an
\* array of the caller
CustomRanges == <<128, 256>>

\* the static DefaultConfig of defaultConfig()
DefaultConfigValue ==
    [samplefreq       |-> ANALYZER_DEFAULT_SAMPLEFREQ,
     fftlength        |-> ANALYZER_DEFAULT_FFTLENGTH,
     sensitivity      |-> ANALYZER_DEFAULT_MICSENS,
     gain             |-> ANALYZER_DEFAULT_GAIN,
     roloffpercentile |-> ANALYZER_DEFAULT_ROLLOFF_PERCENTILE,
     numranges        |-> ANALYZER_DEFAULT_NUMRANGES,
     ranges           |-> "DefaultRanges",
     fuzzfactor       |-> ANALYZER_DEFAULT_FUZZFACTOR,
     mfcccoeff        |-> ANALYZER_DEFAULT_MFCC_COEFF]

\* the value of an AnalyzerConfig object nobody has written yet
NoCfg ==
    [samplefreq |-> 0, fftlength |-> 0, sensitivity |-> 0, gain |-> 0,
     roloffpercentile |-> 0, numranges |-> 0, ranges |-> "none",
     fuzzfactor |-> 0, mfcccoeff |-> 0]

\* configurations callers pass to setConfig / Analyzer(AnalyzerConfig &): a
\* copy of the default configuration with one setting overwritten, the way
\* Example1.cpp builds its configuration
SampleFreqs == {8192, ANALYZER_DEFAULT_SAMPLEFREQ}
FftLengths == {ANALYZER_DEFAULT_FFTLENGTH, 1024}
\* 0 (switched off) and the default 5.012, in thousandths
Sensitivities == {0, ANALYZER_DEFAULT_MICSENS}
RangeChoices == {<<0, "DefaultRanges">>, <<ANALYZER_DEFAULT_NUMRANGES, "DefaultRanges">>,
                 <<Len(CustomRanges), "CustomRanges">>}
MfccCoeffs == {0, ANALYZER_DEFAULT_MFCC_COEFF}

Overwritten(cfg) ==
    Cardinality({f \in DOMAIN cfg \ {"ranges"} : cfg[f] # DefaultConfigValue[f]}
                \cup (IF cfg.ranges # DefaultConfigValue.ranges THEN {"numranges"} ELSE {}))

InputConfigs ==
    {cfg \in
        {[DefaultConfigValue EXCEPT !.samplefreq = sf, !.fftlength = fl, !.sensitivity = se,
                                    !.numranges = rc[1], !.ranges = rc[2], !.mfcccoeff = mc] :
            sf \in SampleFreqs, fl \in FftLengths, se \in Sensitivities,
            rc \in RangeChoices, mc \in MfccCoeffs} :
        Overwritten(cfg) <= 1}

(* ------------------------------- state -------------------------------- *)
VARIABLES
    eng,            \* eng[e]: the members of Analyzer instance e
    heap,           \* heap[id]: whether identity id is live, and its element count
    DefaultRanges,  \* namespace-level unsigned DefaultRanges[6]
    getConfig_cfg,  \* the function-local `static AnalyzerConfig cfg` of getConfig
    fails,          \* allocation failures injected so far
    rescales,       \* passes of the rescaling loop that changed DefaultRanges
    crashed,        \* the program trapped (null dereference, undefined access)
    lastOp          \* the last operation: name, engine, arguments, result, effects

vars == <<eng, heap, DefaultRanges, getConfig_cfg, fails, rescales, crashed, lastOp>>

\* an Analyzer object before its constructor body runs: the members with a
\* default member initializer (SoundAnalyzer.h:125-135) hold it, Bins, Mfccs
\* and Signature (SoundAnalyzer.h:88-95) have none and hold the value u
Fresh(u) ==
    [status |-> "none", initialized |-> FALSE, Config |-> NoCfg,
     Fr |-> <<0, 1>>, NumBins |-> 0, SignatureLen |-> 0, NumMfccCoeff |-> 0,
     signal |-> nullptr, spectrum |-> nullptr, FFT |-> nullptr,
     mfcc |-> nullptr, yin |-> nullptr,
     Signature |-> u, Bins |-> u, Mfccs |-> u]

\* what an Analyzer object without initializer for a member may hold there:
\* zero for an object of static storage duration (Example1.cpp:17),
\* anything for an automatic or dynamic one
Indeterminate == {nullptr, Garbage}

NoOp ==
    [op |-> "none", e |-> 0, ret |-> 0, hash |-> <<0, 0>>, sig |-> <<>>, fp |-> "none",
     divisor |-> -1, failed |-> FALSE, wild |-> FALSE, allocs |-> 0, frees |-> 0,
     derefs |-> {}, writes |-> {}, trapped |-> FALSE, arg |-> <<>>, val |-> <<>>]

Init ==
    /\ eng = [e \in Engines |-> Fresh(nullptr)]
    /\ heap = [id \in AllIds |-> [st |-> "free", n |-> 0]]
    /\ DefaultRanges = ANALYZER_DEFAULT_RANGES_256
    /\ getConfig_cfg = NoCfg
    /\ fails = 0
    /\ rescales = 0
    /\ crashed = FALSE
    /\ lastOp = NoOp

Live(h, x) == x \in DOMAIN h /\ h[x].st = "live"

\* The value of the one-element set S.  Val({F(v) : v \in {exp}}) is
\* F(exp) with exp evaluated once and named v.
Val(S) == CHOOSE v \in S : TRUE

(* ---------------------------- End() ---------------------------------- *)
\* the members End() hands to delete: the non-null ones of EndOrder
Deleted(a) == {k \in Kinds : a[k] # nullptr}

\* Analyzer<T>::End on members a and heap h.  The six members are deleted
\* in the order of EndOrder; no two of them hold the same identity, so the
\* order does not show in the result.  wild: a pointer that is no live
\* allocation was handed to delete; frees: the number of deletes.
End(a, h) ==
    [a     |-> [a EXCEPT !.signal = nullptr, !.spectrum = nullptr,
                         !.Signature = nullptr, !.FFT = nullptr,
                         !.mfcc = nullptr, !.yin = nullptr,
                         !.initialized = FALSE],
     h     |-> [id \in DOMAIN h |->
                  IF h[id].st = "live" /\ \E k \in Kinds : a[k] = id
                  THEN [st |-> "free", n |-> 0]
                  ELSE h[id]],
     wild  |-> \E k \in Deleted(a) : ~Live(h, a[k]),
     frees |-> Cardinality(Deleted(a))]

(* ---------------------------- Begin() -------------------------------- *)
\* element count of the object of kind k allocated for configuration cfg:
\* new float[fftlength] twice, ESP_fft(fftlength, ...), MFCC::MFCCs =
\* new float[numCoefficents], new signature_t[numranges], YIN::delta =
\* new float[framesz/2].  A subcomponent and the arrays its constructor
\* allocates are one allocation here.
SizeFor(k, cfg) ==
    CASE k = "signal"    -> cfg.fftlength
      [] k = "spectrum"  -> cfg.fftlength
      [] k = "FFT"       -> cfg.fftlength
      [] k = "mfcc"      -> cfg.mfcccoeff
      [] k = "Signature" -> cfg.numranges
      [] k = "yin"       -> cfg.fftlength \div 2

\* memok = (signal || spectrum || FFT), Analyzer.cpp:148
MemOkAfterFft(signal, spectrum, FFT) ==
    signal # nullptr \/ spectrum # nullptr \/ FFT # nullptr

\* the identities of kind k of engine e that no live allocation has
FreeGens(e, h, k) == {g \in Gens : h[Id(e, k, g)].st = "free"}

\* the identity `new` hands out for an object of kind k of engine e: one no
\* live allocation has (nullptr when the identities of the model ran out)
FirstFree(e, h, k) ==
    LET fg == FreeGens(e, h, k)
    IN IF fg = {} THEN nullptr
       ELSE Id(e, k, CHOOSE g \in fg : \A g2 \in fg : g <= g2)

\* The allocation sites Begin() reaches and its result, for configuration
\* cfg when the sites in F return nullptr: the chain of memok tests of
\* Analyzer.cpp:144-174.  p[k] is what the `new` of site k returns.
BeginPlan(cfg, p) ==
    LET memok1 == MemOkAfterFft(p["signal"], p["spectrum"], p["FFT"])
        doMfcc == cfg.mfcccoeff > 0 /\ memok1
        memok2 == IF cfg.mfcccoeff > 0 /\ memok1 THEN p["mfcc"] # nullptr ELSE memok1
        doSig  == cfg.numranges > 0 /\ memok2
        memok3 == IF cfg.numranges > 0 /\ memok2 THEN p["Signature"] # nullptr ELSE memok2
        doYin  == memok3
        memok  == IF memok3 THEN p["yin"] # nullptr ELSE FALSE
    IN [doMfcc |-> doMfcc, doSig |-> doSig, doYin |-> doYin, memok |-> memok,
        tried  |-> {"signal", "spectrum", "FFT"}
                      \cup (IF doMfcc THEN {"mfcc"} ELSE {})
                      \cup (IF doSig THEN {"Signature"} ELSE {})
                      \cup (IF doYin THEN {"yin"} ELSE {})]

\* Analyzer<T>::Begin on members a of engine e and heap h; the allocation
\* sites in F return nullptr.  Result: members, heap, the returned bool, the
\* sites reached, whether mfcc->MFCCs was read through nullptr, and whether
\* the identities of the model ran out.
Begin(e, a, h, F) ==
    IF a.initialized
    THEN [a |-> a, h |-> h, ret |-> TRUE, tried |-> {}, nullderef |-> FALSE,
          exhausted |-> FALSE]
    ELSE Val({Val({
        [a |-> [a EXCEPT !.Fr = <<a.Config.samplefreq, a.Config.fftlength>>,
                         !.NumBins = a.Config.fftlength \div 2,
                         !.signal = p["signal"], !.spectrum = p["spectrum"],
                         !.FFT = p["FFT"],
                         !.Bins = p["spectrum"],
                         !.mfcc = IF plan.doMfcc THEN p["mfcc"] ELSE a.mfcc,
                         \* Mfccs = mfcc->MFCCs is read before mfcc is tested
                         !.Mfccs = IF ~plan.doMfcc THEN a.Mfccs
                                   ELSE IF p["mfcc"] = nullptr THEN Garbage
                                   ELSE p["mfcc"],
                         !.Signature = IF plan.doSig THEN p["Signature"] ELSE a.Signature,
                         !.yin = IF plan.doYin THEN p["yin"] ELSE a.yin,
                         !.initialized = plan.memok],
         h |-> [id \in DOMAIN h |->
                  IF \E k \in plan.tried \ F : p[k] = id
                  THEN [st |-> "live",
                        n  |-> SizeFor(CHOOSE k \in plan.tried \ F : p[k] = id, a.Config)]
                  ELSE h[id]],
         ret |-> plan.memok,
         tried |-> plan.tried,
         nullderef |-> plan.doMfcc /\ p["mfcc"] = nullptr,
         exhausted |-> \E k \in plan.tried \ F : p[k] = nullptr]
        : plan \in {BeginPlan(a.Config, p)}})
        : p \in {[k \in Kinds |-> IF k \in F THEN nullptr ELSE FirstFree(e, h, k)]}})

(* --------------------------- setConfig() ------------------------------ *)
\* a comparison that finds every configuration different
SizingAlways(newCfg, cur) == TRUE

\* the comparison of Analyzer.cpp:80-81
SizingDiffers(newCfg, cur) ==
    \/ newCfg.fftlength # cur.fftlength
    \/ newCfg.samplefreq # cur.samplefreq
    \/ newCfg.numranges # cur.numranges
    \/ newCfg.mfcccoeff # cur.mfcccoeff

\* the test of Analyzer.cpp:96
NeedsRescale(cfg) ==
    cfg.fftlength # ANALYZER_DEFAULT_FFTLENGTH /\ cfg.ranges = "DefaultRanges"

\* the loop of Analyzer.cpp:98-102 over the array Config.ranges points to.
\* The arithmetic is 32-bit unsigned; with at most MaxRescales passes and the
\* lengths of FftLengths every product stays far below 2^31, so no product
\* wraps and the plain integer product is the unsigned one.
Rescaled(R, numranges, fftlength) ==
    [i \in DOMAIN R |->
        IF i <= numranges
        THEN (R[i] * fftlength) \div ANALYZER_DEFAULT_FFTLENGTH
        ELSE R[i]]

\* Analyzer.cpp:103
RescaledFuzz(fftlength) ==
    (ANALYZER_DEFAULT_FUZZFACTOR * fftlength) \div ANALYZER_DEFAULT_FFTLENGTH

\* the assignments of setConfig with 256 taken for the default length: the
\* fuzz factor of a default profile is scaled by fftlength / 256
Configured256(a, newCfg) ==
    [a EXCEPT !.Config = IF newCfg.fftlength # 256 /\ newCfg.ranges = "DefaultRanges"
                         THEN [newCfg EXCEPT !.fuzzfactor =
                                  (ANALYZER_DEFAULT_FUZZFACTOR * newCfg.fftlength) \div 256]
                         ELSE newCfg,
              !.Fr = <<newCfg.samplefreq, newCfg.fftlength>>,
              !.NumBins = newCfg.fftlength \div 2,
              !.SignatureLen = newCfg.numranges,
              !.NumMfccCoeff = newCfg.mfcccoeff]

\* Analyzer.cpp:87-104: Config = newCfg, the derived members, and the
\* fuzz factor of a rescaled default profile
Configured(a, newCfg) ==
    [a EXCEPT !.Config = IF NeedsRescale(newCfg)
                         THEN [newCfg EXCEPT !.fuzzfactor = RescaledFuzz(newCfg.fftlength)]
                         ELSE newCfg,
              !.Fr = <<newCfg.samplefreq, newCfg.fftlength>>,
              !.NumBins = newCfg.fftlength \div 2,
              !.SignatureLen = newCfg.numranges,
              !.NumMfccCoeff = newCfg.mfcccoeff]

\* Analyzer<T>::setConfig(newCfg) on members a of engine e, heap h and the
\* array DR = DefaultRanges
setConfig(e, a, h, DR, newCfg, F) ==
    Val({Val({
        [a |-> b.a, h |-> b.h,
         DR |-> IF NeedsRescale(newCfg)
                THEN Rescaled(DR, newCfg.numranges, newCfg.fftlength)
                ELSE DR,
         began |-> b.ret, tried |-> b.tried,
         wild |-> ended.wild, frees |-> ended.frees, nullderef |-> b.nullderef,
         exhausted |-> b.exhausted]
        : b \in {Begin(e, a2, ended.h, F) : a2 \in {Configured(ended.a, newCfg)}}})
        : ended \in {IF a.initialized /\ SizingDiffers(newCfg, a.Config)
                     THEN End(a, h)
                     ELSE [a |-> a, h |-> h, wild |-> FALSE, frees |-> 0]}})

\* the sets of allocation sites an injected failure may hit
FailSets == {F \in SUBSET Kinds : Cardinality(F) <= MaxFails - fails}

\* A configuration call as a step; r is the result of setConfig.  An
\* undefined release (End() handing delete a pointer that is no live
\* allocation) or the read through nullptr of Begin() either traps or goes
\* on, and a failing `new` either returns nullptr, which is what the tests
\* of Begin() are written for, or ends the program: trap chooses.  A
\* trapped program takes no further step.
ConfigStep(name, e, r, F, trap) ==
    /\ F \subseteq r.tried
    /\ ~r.exhausted
    /\ r.DR # DefaultRanges => rescales < MaxRescales
    /\ trap => (r.wild \/ r.nullderef \/ F # {})
    /\ eng' = [eng EXCEPT ![e] = [r.a EXCEPT !.status = "alive"]]
    /\ heap' = r.h
    /\ DefaultRanges' = r.DR
    /\ fails' = fails + Cardinality(F)
    /\ rescales' = IF r.DR # DefaultRanges THEN rescales + 1 ELSE rescales
    /\ crashed' = trap
    /\ lastOp' = [NoOp EXCEPT !.op = name, !.e = e, !.failed = (F # {}),
                              !.wild = r.wild, !.frees = r.frees,
                              !.allocs = Cardinality(r.tried \ F),
                              !.trapped = trap]
    /\ UNCHANGED getConfig_cfg

\* Analyzer<T>::Analyzer(): setConfig(defaultConfig())
Analyzer_default(e, Fs) ==
    /\ ~crashed
    /\ eng[e].status = "none"
    /\ \E u \in Indeterminate, F \in Fs :
          \E r \in {setConfig(e, Fresh(u), heap, DefaultRanges, DefaultConfigValue, F)} :
             \E trap \in BOOLEAN : ConfigStep("Analyzer", e, r, F, trap)

\* Analyzer<T>::Analyzer(AnalyzerConfig & Config): setConfig(Config)
Analyzer_cfg(e, Cfgs, Fs) ==
    /\ ~crashed
    /\ eng[e].status = "none"
    /\ \E cfg \in Cfgs, u \in Indeterminate, F \in Fs :
          \E r \in {setConfig(e, Fresh(u), heap, DefaultRanges, cfg, F)} :
             \E trap \in BOOLEAN : ConfigStep("Analyzer", e, r, F, trap)

\* a call of setConfig on a constructed engine
SetConfig(e, Cfgs, Fs) ==
    /\ ~crashed
    /\ eng[e].status = "alive"
    /\ \E cfg \in Cfgs, F \in Fs :
          \E r \in {setConfig(e, eng[e], heap, DefaultRanges, cfg, F)} :
             \E trap \in BOOLEAN : ConfigStep("setConfig", e, r, F, trap)

\* Analyzer<T>::~Analyzer(): End(); the object is gone afterwards
Destroy(e) ==
    /\ ~crashed
    /\ eng[e].status = "alive"
    /\ \E r \in {End(eng[e], heap)}, trap \in BOOLEAN :
            /\ trap => r.wild
            /\ eng' = [eng EXCEPT ![e] = [Fresh(nullptr) EXCEPT !.status = "destroyed"]]
            /\ heap' = r.h
            /\ crashed' = trap
            /\ lastOp' = [NoOp EXCEPT !.op = "~Analyzer", !.e = e, !.wild = r.wild,
                                      !.frees = r.frees, !.trapped = trap]
    /\ UNCHANGED <<DefaultRanges, getConfig_cfg, fails, rescales>>

\* Analyzer<T>::getConfig(): `static AnalyzerConfig cfg = Config; return cfg;`
\* The static is initialised by the first call that reaches the declaration,
\* from the engine that call is made on, and every instance shares it; the
\* reference returned is to the static.
getConfig(e) ==
    /\ ~crashed
    /\ eng[e].status = "alive"
    /\ getConfig_cfg' = IF getConfig_cfg = NoCfg THEN eng[e].Config ELSE getConfig_cfg
    /\ lastOp' = [NoOp EXCEPT !.op = "getConfig", !.e = e]
    /\ UNCHANGED <<eng, heap, DefaultRanges, fails, rescales, crashed>>

(* ------------------------ per-frame operations ------------------------ *)
\* Frames the caller owns (Signal arguments): len samples of magnitude amp,
\* of alternating sign when alt.  Samples are integers (Analyzer<int16_t>).
CallerFrames ==
    {[amp |-> 0, alt |-> FALSE, len |-> 1024], [amp |-> 50, alt |-> TRUE, len |-> 1024],
     [amp |-> 5012, alt |-> FALSE, len |-> 4]}
Sample(s, i) == IF s.alt /\ i % 2 = 1 THEN 0 - s.amp ELSE s.amp
SigLens == {0, 4}

Abs(x) == IF x < 0 THEN 0 - x ELSE x

\* floor(log2(n)) for n >= 1
RECURSIVE Log2(_)
Log2(n) == IF n < 2 THEN 0 ELSE 1 + Log2(n \div 2)

\* the float nearest to the integer n >= 0 (24 significant bits, ties to
\* the even significand): what a float product with exact value n holds
RoundFloat(n) ==
    IF n < 2 ^ 24 THEN n
    ELSE Val({ Val({ (IF (n % u) * 2 > u \/ ((n % u) * 2 = u /\ q % 2 = 1) THEN q + 1 ELSE q) * u
                     : q \in {n \div u} })
               : u \in {2 ^ (Log2(n) - 23)} })

\* the exponent of the largest power of two that divides n > 0
RECURSIVE TwoPart(_)
TwoPart(n) == IF n = 0 \/ n % 2 = 1 THEN 0 ELSE 1 + TwoPart(n \div 2)

\* amp = fabs((float) Signal[i]) (Analyzer.cpp:209) as <<m, k>> meaning
\* m * 2^k with m odd: the conversion to float rounds an int sample
FloatAmp(x) ==
    Val({ <<f \div 2 ^ TwoPart(f), TwoPart(f)>> : f \in {RoundFloat(Abs(x))} })

\* the loop of Analyzer.cpp:208-211 over the first len samples of frame s,
\* whose samples have one magnitude m * 2^k: it adds the float product
\* sq(amp) to the double Rms.  Floating-point products, sums, quotients
\* and roots commute with a scaling by a power of two, so the sum is held
\* in units of 2^(2k); it is an integer below 2^53, exact in double.
SumSq(s, len) ==
    LET even == FloatAmp(Sample(s, 0))[1]
        odd  == FloatAmp(Sample(s, 1))[1]
    IN ((len + 1) \div 2) * RoundFloat(even * even) + (len \div 2) * RoundFloat(odd * odd)

\* floor of the square root of a non-negative integer (bisection on lo..hi)
RECURSIVE SqrtIn(_, _, _)
SqrtIn(x, lo, hi) ==
    IF lo >= hi THEN lo
    ELSE LET mid == (lo + hi + 1) \div 2
         IN IF mid <= x \div mid THEN SqrtIn(x, mid, hi) ELSE SqrtIn(x, lo, mid - 1)
Sqrt(x) == IF x = 0 THEN 0 ELSE SqrtIn(x, 1, x)

\* m / 2^s with the common factors of two removed
RECURSIVE Dyadic(_, _)
Dyadic(m, s) == IF s > 0 /\ m % 2 = 0 THEN Dyadic(m \div 2, s - 1) ELSE <<m, s>>

\* a square root cut down to an integer
FloorSqrt(x) == <<Sqrt(x), 0>>

\* the float that `return sqrt(Rms)` yields for the integer x, as <<m, s>>
\* meaning m / 2^s.  With r = floor(sqrt(x)) and D = x - r^2, the floats of
\* [r, r + 1] are r + j / 2^s for s = 23 - floor(log2(r)); the nearest one
\* to sqrt(x) is the j with (r + (2j-1)/P)^2 <= x <= (r + (2j+1)/P)^2 for
\* P = 2^(s+1), i.e.  t^2 <= P * (D*P - 2*r*t)  at t = 2j-1  and
\* P * (D*P - 2*r*t) <= t^2  at t = 2j+1  (no tie: t^2 is odd, P even).
\* Defined for squares and for x >= 2^20, where every product fits.
FloatSqrt(x) ==
    Val({ IF x = r * r THEN <<r, 0>>
          ELSE Val({ Val({ Dyadic(r * (P \div 2) + j, Log2(P) - 1)
                           : j \in {CHOOSE j \in 0 .. (P \div 2) :
                                      /\ j >= (D * P) \div (4 * r) - 1
                                      /\ j <= (D * P) \div (4 * r) + 2
                                      /\ (j = 0 \/ (D * P - 2 * r * (2 * j - 1) >= 0
                                                    /\ ((2 * j - 1) * (2 * j - 1) + P - 1) \div P
                                                         <= D * P - 2 * r * (2 * j - 1)))
                                      /\ D * P - 2 * r * (2 * j + 1)
                                            <= ((2 * j + 1) * (2 * j + 1)) \div P} })
                     : P \in {2 ^ (24 - Log2(r))}, D \in {x - r * r} })
          : r \in {Sqrt(x)} })

\* the number of samples rms reads (Analyzer.cpp:205)
rmsLen(a, siglen) == IF siglen = 0 THEN a.Config.fftlength ELSE siglen

\* Analyzer<T>::rms: Rms / len is exact in double for the frames of the
\* model, whose samples have one magnitude m * 2^k; the result is the float
\* sqrt(Rms) of the sum held in units of 2^(2k), times 2^k
rms(a, s, siglen) ==
    Val({ IF r[2] >= k THEN <<r[1], r[2] - k>> ELSE <<r[1] * 2 ^ (k - r[2]), 0>>
          : r \in {FloatSqrt(SumSq(s, rmsLen(a, siglen)) \div rmsLen(a, siglen))},
            k \in {FloatAmp(s.amp)[2]} })

\* 20 * log10(num / den) where the quotient is one of 1, 10, 100, 1000
IsPow10Ratio(num, den) ==
    num % den = 0 /\ (num \div den) \in {1, 10, 100, 1000}
TwentyLog10(num, den) ==
    CASE num \div den = 1    -> 0
      [] num \div den = 10   -> 20
      [] num \div den = 100  -> 40
      [] num \div den = 1000 -> 60

\* largest decibel_t (unsigned short)
DecibelMax == 2 ^ 16 - 1
\* what the conversion of a double outside the range of decibel_t (an
\* infinity, a NaN, a negative value) to decibel_t may yield: undefined
CastUB == {0, DecibelMax}

\* Analyzer<T>::decibelSPL: vRms / Config.sensitivity is evaluated
\* unconditionally (Analyzer.cpp:240).  fp is the class of the double dB that
\* reaches the cast, rets the values the cast may return.  The sensitivity
\* is held in thousandths, so the quotient is vRms * 1000 / sensitivity.
decibelSPL(a, s, siglen) ==
    LET vRms == rms(a, s, siglen)[1]
        sens == a.Config.sensitivity
        fp   == IF sens = 0 THEN (IF vRms = 0 THEN "nan" ELSE "inf")
                ELSE IF vRms = 0 THEN "-inf" ELSE "finite"
        dB   == IF fp = "finite"
                THEN (TwentyLog10(vRms * 1000, sens) - a.Config.gain) + 94
                ELSE 0
    IN [fp |-> fp, divisor |-> sens,
        rets |-> IF fp = "finite" /\ dB >= 0 /\ dB <= DecibelMax THEN {dB} ELSE CastUB]

\* ---- spectrum arguments
Spectra == {nullptr, CallerBuf}
Lens == {0, 1}

\* Analyzer<T>::doFft: the pointers it goes through and the objects it writes
doFft(e, a, removeDC) ==
    [a |-> a, ret |-> 0,
     derefs |-> {CallerBuf, a.signal, a.FFT, a.spectrum},
     writes |-> {a.signal, a.spectrum, FeaturesOf(e)}]

\* getSignature without the test of numranges
getSignatureAlways(e, a, Spectrum, len) ==
    [a |-> a, ret |-> a.Signature,
     derefs |-> {a.Signature}
                 \cup (IF (IF len = 0 THEN a.NumBins ELSE len) > 1
                       THEN {IF Spectrum # nullptr THEN Spectrum ELSE a.spectrum}
                       ELSE {}),
     writes |-> {a.Signature}]

\* Analyzer<T>::getSignature
getSignature(e, a, Spectrum, len) ==
    IF a.Config.numranges = 0
    THEN [a |-> a, ret |-> nullptr, derefs |-> {}, writes |-> {}]
    ELSE LET bins == IF Spectrum # nullptr THEN Spectrum ELSE a.spectrum
             NB   == IF len = 0 THEN a.NumBins ELSE len
         IN [a |-> a, ret |-> a.Signature,
             derefs |-> {a.Signature} \cup (IF NB > 1 THEN {bins} ELSE {}),
             writes |-> {a.Signature}]

\* Analyzer<T>::getFeatures
getFeatures(e, a, Spectrum, len) ==
    LET bins == IF Spectrum # nullptr THEN Spectrum ELSE a.spectrum
        NB   == IF len = 0 THEN a.NumBins ELSE len
    IN [a |-> a, ret |-> FeaturesOf(e),
        derefs |-> IF NB > 1 THEN {bins} ELSE {},
        writes |-> {FeaturesOf(e)}]

\* Analyzer<T>::getMfcc
getMfcc(e, a, Spectrum, len) ==
    LET bins == IF Spectrum # nullptr THEN Spectrum ELSE a.spectrum
    IN IF a.Config.mfcccoeff > 0
       THEN [a |-> [a EXCEPT !.Mfccs = a.mfcc], ret |-> a.mfcc,
             derefs |-> {a.mfcc, bins}, writes |-> {a.mfcc}]
       ELSE [a |-> a, ret |-> nullptr, derefs |-> {}, writes |-> {}]

\* Analyzer<T>::getPitch
getPitch(e, a) ==
    [a |-> a, ret |-> 0,
     derefs |-> {a.signal, a.yin} \cup {CallerBuf},
     writes |-> {a.signal, a.yin}]

\* ---- signatureHash
\* hash_t is unsigned long, 32 bits on the ESP32 the library is written for;
\* a hash is held as <<high, low>> halves of 16 bits
Limb == 2 ^ 16
RECURSIVE Xor(_, _)
Xor(x, y) ==
    IF x = 0 THEN y
    ELSE IF y = 0 THEN x
    ELSE (((x % 2) + (y % 2)) % 2) + 2 * Xor(x \div 2, y \div 2)

Times33(h) ==
    LET lo == h[2] * 33
    IN <<(h[1] * 33 + (lo \div Limb)) % Limb, lo % Limb>>

\* the value itself, not quantized
Unquantized(v, fuzz) == v

\* value - (value % fuzzfactor), SoundAnalyzer.h:113
Quantized(v, fuzz) == v - (v % fuzz)

\* Analyzer::signatureHash(sig, nr, off) with Config.fuzzfactor = fuzz; sig
\* is 1-based here
RECURSIVE signatureHash(_, _, _, _)
signatureHash(sig, nr, off, fuzz) ==
    IF off = nr THEN <<0, 5381>>
    ELSE Val({<<Xor(h[1], Quantized(sig[off + 1], fuzz) \div Limb),
                Xor(h[2], Quantized(sig[off + 1], fuzz) % Limb)>>
              : h \in {Times33(r) : r \in {signatureHash(sig, nr, off + 1, fuzz)}}})

\* signature values (signature_t) the inputs of getSignatureHash hold
HashVals == {0, 31, 32, 33}
\* the contents of a signature of n entries: the first MaxSigVary entries
\* range over HashVals, the others are 0
SigInputs(n) ==
    {s \in [1..n -> HashVals] : \A i \in 1..n : i > MaxSigVary => s[i] = 0}

\* A per-frame operation as a step.  r: the members after it, its result,
\* the pointers it goes through and the objects it writes.  Going through
\* nullptr traps; going through a pointer that is no live allocation is
\* undefined and either traps or goes on (trap chooses).
IsNull(D) == nullptr \in D
IsWild(e, D) ==
    \E x \in D : x # nullptr /\ x \notin {CallerBuf, FeaturesOf(e)} /\ ~Live(heap, x)

FrameStep(name, e, r, extra, trap) ==
    /\ trap <=> (IsNull(r.derefs) \/ (trap /\ IsWild(e, r.derefs)))
    /\ eng' = IF trap THEN eng ELSE [eng EXCEPT ![e] = r.a]
    /\ crashed' = trap
    /\ lastOp' = IF trap THEN [NoOp EXCEPT !.op = name, !.e = e, !.trapped = TRUE]
                 ELSE [extra EXCEPT !.op = name, !.e = e, !.ret = r.ret,
                                    !.derefs = r.derefs, !.writes = r.writes]
    /\ UNCHANGED <<heap, DefaultRanges, getConfig_cfg, fails, rescales>>

\* rms(Signal, siglen) on a frame of Frames that holds the samples it reads
\* and whose sum of squares, in units of 2^(2k), is below 2^31
Rms(e, Frames, SLens) ==
    /\ ~crashed /\ eng[e].status = "alive"
    /\ \E s \in Frames, siglen \in SLens :
          /\ rmsLen(eng[e], siglen) <= s.len
          /\ FloatAmp(s.amp)[1] < 2 ^ 15
          /\ FloatAmp(s.amp)[1] * FloatAmp(s.amp)[1] <= 2147483000 \div rmsLen(eng[e], siglen)
          /\ FrameStep("rms", e,
                       [a |-> eng[e], ret |-> rms(eng[e], s, siglen),
                        derefs |-> {CallerBuf}, writes |-> {}],
                       [NoOp EXCEPT !.arg = <<s, siglen>>, !.val = rmsLen(eng[e], siglen)],
                       FALSE)

DecibelSPL(e) ==
    /\ ~crashed /\ eng[e].status = "alive"
    /\ \E s \in CallerFrames, siglen \in SigLens :
          /\ (IF siglen = 0 THEN eng[e].Config.fftlength ELSE siglen) <= s.len
          /\ LET vRms == rms(eng[e], s, siglen)
                 sens == eng[e].Config.sensitivity
             IN /\ vRms[2] = 0
                /\ (vRms[1] # 0 /\ sens # 0) => IsPow10Ratio(vRms[1] * 1000, sens)
          /\ LET d == decibelSPL(eng[e], s, siglen)
             IN \E v \in d.rets :
                   FrameStep("decibelSPL", e,
                             [a |-> eng[e], ret |-> v, derefs |-> {CallerBuf}, writes |-> {}],
                             [NoOp EXCEPT !.fp = d.fp, !.divisor = d.divisor], FALSE)

DoFft(e) ==
    /\ ~crashed /\ eng[e].status = "alive"
    /\ \E removeDC \in BOOLEAN, trap \in BOOLEAN :
          FrameStep("doFft", e, doFft(e, eng[e], removeDC), NoOp, trap)

GetSignature(e) ==
    /\ ~crashed /\ eng[e].status = "alive"
    /\ \E Spectrum \in Spectra, len \in Lens, trap \in BOOLEAN :
          FrameStep("getSignature", e, getSignature(e, eng[e], Spectrum, len), NoOp, trap)

GetFeatures(e) ==
    /\ ~crashed /\ eng[e].status = "alive"
    /\ \E Spectrum \in Spectra, len \in Lens, trap \in BOOLEAN :
          FrameStep("getFeatures", e, getFeatures(e, eng[e], Spectrum, len), NoOp, trap)

GetMfcc(e) ==
    /\ ~crashed /\ eng[e].status = "alive"
    /\ \E Spectrum \in Spectra, len \in Lens, trap \in BOOLEAN :
          FrameStep("getMfcc", e, getMfcc(e, eng[e], Spectrum, len), NoOp, trap)

GetPitch(e) ==
    /\ ~crashed /\ eng[e].status = "alive"
    /\ \E trap \in BOOLEAN :
          FrameStep("getPitch", e, getPitch(e, eng[e]), NoOp, trap)

\* Analyzer<T>::getSignatureHash(Sig): S is Sig, or the engine's Signature
\* when Sig is nullptr; signatureHash reads S[0 .. SignatureLen-1] and takes
\* each value modulo Config.fuzzfactor, which is positive in every
\* configuration of InputConfigs.  c is the content of the array S.
GetSignatureHash(e) ==
    /\ ~crashed /\ eng[e].status = "alive"
    /\ \E Sig \in {nullptr, CallerBuf}, c \in SigInputs(eng[e].SignatureLen), trap \in BOOLEAN :
          FrameStep("getSignatureHash", e,
                    [a |-> eng[e], ret |-> 0,
                     derefs |-> IF eng[e].SignatureLen > 0
                                THEN {IF Sig = nullptr THEN eng[e].Signature ELSE Sig}
                                ELSE {},
                     writes |-> {}],
                    [NoOp EXCEPT !.sig = c,
                                 !.hash = signatureHash(c, eng[e].SignatureLen, 0,
                                                        eng[e].Config.fuzzfactor)],
                    trap)

(* ------------------ one instance, every operation --------------------- *)
Next ==
    \/ Analyzer_default(1, FailSets)
    \/ Analyzer_cfg(1, InputConfigs, FailSets)
    \/ SetConfig(1, InputConfigs, FailSets)
    \/ Destroy(1)
    \/ Rms(1, CallerFrames, SigLens)
    \/ DecibelSPL(1)
    \/ DoFft(1)
    \/ GetSignature(1)
    \/ GetFeatures(1)
    \/ GetMfcc(1)
    \/ GetPitch(1)
    \/ GetSignatureHash(1)

Spec == Init /\ [][Next]_vars

(* --------------------- two instances, shared statics ------------------- *)
\* the configurations the calls of the two-instance specification pass
SharedConfigs ==
    {cfg \in InputConfigs : cfg.numranges = ANALYZER_DEFAULT_NUMRANGES
                            /\ cfg.mfcccoeff = ANALYZER_DEFAULT_MFCC_COEFF}

NextShared ==
    \E e \in Engines :
        \/ Analyzer_default(e, {{}})
        \/ Analyzer_cfg(e, SharedConfigs, {{}})
        \/ SetConfig(e, SharedConfigs, {{}})
        \/ Destroy(e)
        \/ getConfig(e)

SpecShared == Init /\ [][NextShared]_vars

(* ------------------------- exact fractions ---------------------------- *)
RECURSIVE GCD(_, _)
GCD(x, y) == IF y = 0 THEN x ELSE GCD(y, x % y)

\* the fraction n / d in lowest terms with a positive denominator
Rat(n, d) ==
    Val({ <<(IF d < 0 THEN 0 - n ELSE n) \div g, Abs(d) \div g>> : g \in {GCD(Abs(n), Abs(d))} })

(* --------------------- getFeatures: the values ------------------------- *)
\* bins in a caller's spectrum array
MaxBins == 4
\* magnitudes the bins hold
Mags == {0, 1, 3}
\* a spectrum array c holds bins[i] at c[i + 1]
FeatureSpectra == [1 .. MaxBins -> Mags]
Bin(c, i) == c[i + 1]

\* Config.roloffpercentile in hundredths; each is a float whose product
\* with an integer sum below 2^24 rounds to the exact product when that is
\* an integer and lies on its side of every integer otherwise
Percentiles == {0, 50, ANALYZER_DEFAULT_ROLLOFF_PERCENTILE, 100}
FeatureConfigs == {[DefaultConfigValue EXCEPT !.roloffpercentile = p] : p \in Percentiles}

\* the bins both loops of getFeatures visit, without bin 0 and with it
LoopBinsFromZero(NumBins) == 0 .. NumBins - 1
LoopBins(NumBins) == 1 .. NumBins - 1

\* the sum of f over the index set S
RECURSIVE SumOver(_, _)
SumOver(f, S) ==
    IF S = {} THEN 0
    ELSE Val({ f[x] + SumOver(f, S \ {x}) : x \in {CHOOSE y \in S : TRUE} })

MaxOver(f, S) == IF S = {} THEN 0 ELSE CHOOSE m \in {f[x] : x \in S} : \A x \in S : f[x] <= m

\* the rolloff branch of the second loop (Analyzer.cpp:421-427) from bin i
\* on, while rolloff is still 0: the running sum is tested before the
\* magnitude of bin i is added to it.  Yields the bin index, 0 for none.
RECURSIVE RolloffBin(_, _, _, _, _, _)
RolloffBin(c, NumBins, pct, total, i, roloff_sum) ==
    IF i >= NumBins THEN 0
    ELSE IF roloff_sum * 100 > pct * total THEN i
    ELSE RolloffBin(c, NumBins, pct, total, i + 1, roloff_sum + Bin(c, i))

\* Analyzer<T>::getFeatures on the array c with NumBins bins: Favgmag,
\* Fcrest, Fkurtosis and Frolloff.  With d[i] = NumBins * bins[i] - sum,
\* moment2 is Sum d^2 / NumBins^3 and moment4 is Sum d^4 / NumBins^5.
Features(c, NumBins, pct) ==
    LET S == LoopBins(NumBins)
        first == IF S = {} THEN NumBins ELSE CHOOSE i \in S : \A j \in S : i <= j
    IN Val({ Val({ Val({
         [avgmag   |-> Rat(sumAmplitudes, NumBins),
          crest    |-> IF sumcVal > 0 THEN Rat(MaxOver([i \in S |-> Bin(c, i) * Bin(c, i)], S) * NumBins,
                                               sumcVal)
                       ELSE <<1, 1>>,
          kurtosis |-> IF M2 = 0 THEN <<-3, 1>>
                       ELSE Rat(NumBins * M4 - 3 * (M2 * M2), M2 * M2),
          rolloff  |-> Rat(RolloffBin(c, NumBins, pct, sumAmplitudes, first, 0), NumBins)]
         : M4 \in {SumOver([i \in S |-> (NumBins * Bin(c, i) - sumAmplitudes) ^ 4], S)} })
         : M2 \in {SumOver([i \in S |-> (NumBins * Bin(c, i) - sumAmplitudes) ^ 2], S)} })
         : sumAmplitudes \in {SumOver([i \in S |-> Bin(c, i)], S)},
           sumcVal \in {SumOver([i \in S |-> Bin(c, i) * Bin(c, i)], S)} })

\* getFeatures(Spectrum, len) on a caller's array of MaxBins bins with
\* content c and 1 <= len <= MaxBins
GetFeaturesOn(e) ==
    /\ ~crashed /\ eng[e].status = "alive"
    /\ \E c \in FeatureSpectra, len \in 1 .. MaxBins :
          FrameStep("getFeatures", e, getFeatures(e, eng[e], CallerBuf, len),
                    [NoOp EXCEPT !.arg = <<c, len>>,
                                 !.val = Features(c, len, eng[e].Config.roloffpercentile)],
                    FALSE)

NextFeatures ==
    \/ Analyzer_cfg(1, FeatureConfigs, {{}})
    \/ SetConfig(1, FeatureConfigs, {{}})
    \/ GetFeaturesOn(1)

SpecFeatures == Init /\ [][NextFeatures]_vars

(* ------------------------- rms: the values ----------------------------- *)
\* frames of int16_t samples (Analyzer<int16_t>): long ones of small
\* magnitude, short ones whose squares exceed 2^24 and are rounded by the
\* float product; and frames of int samples (Analyzer<int>) above 2^24
RmsFrames ==
    {[amp |-> a, alt |-> b, len |-> 1024] : a \in {0, 1, 50, 1023}, b \in BOOLEAN}
    \cup {[amp |-> a, alt |-> b, len |-> 4] : a \in {-3, 4097, 5012, 23169}, b \in BOOLEAN}
    \cup {[amp |-> 32767, alt |-> FALSE, len |-> 1], [amp |-> -32768, alt |-> FALSE, len |-> 1]}
    \cup {[amp |-> a, alt |-> FALSE, len |-> 4] : a \in {16777216, 16777217, -50331649}}
RmsLens == {0, 1, 3, 4}
RmsConfigs == {cfg \in InputConfigs : [cfg EXCEPT !.fftlength = ANALYZER_DEFAULT_FFTLENGTH] = DefaultConfigValue}

NextRms ==
    \/ Analyzer_cfg(1, RmsConfigs, {{}})
    \/ SetConfig(1, RmsConfigs, {{}})
    \/ Rms(1, RmsFrames, RmsLens)

SpecRms == Init /\ [][NextRms]_vars

(* ---------------------- YIN.h: the pitch estimator -------------------- *)
\* A float is <<m, e>>, meaning m * 2^e, with 2^23 <= |m| < 2^24, or <<0, 0>>;
\* the exponent InfExp marks an infinity.  Exponents are not bounded: no
\* value of the model is subnormal or overflows.
InfExp == 1000
Sgn(n) == IF n < 0 THEN 0 - 1 ELSE IF n > 0 THEN 1 ELSE 0
IsInf(x) == x[2] = InfExp
Inf(sign) == <<sign * 2 ^ 23, InfExp>>

\* the float nearest to n * 2^e for an integer n (ties to the even significand)
FloatRound(n, e) ==
    IF n = 0 THEN <<0, 0>>
    ELSE Val({ IF lg <= 23 THEN <<n * 2 ^ (23 - lg), e - (23 - lg)>>
               ELSE Val({ IF r = 2 ^ 24 THEN <<Sgn(n) * 2 ^ 23, e + lg - 22>>
                          ELSE <<Sgn(n) * r, e + lg - 23>>
                          : r \in {RoundFloat(Abs(n)) \div 2 ^ (lg - 23)} })
               : lg \in {Log2(Abs(n))} })

\* (float) n
FloatOfInt(n) == FloatRound(n, 0)

\* <<floor(a * 2^k / b), the remainder>> for 0 < a < 2 * b, b < 2^24, seven
\* bits at a time
RECURSIVE FixDiv(_, _, _)
FixDiv(a, b, k) ==
    IF k = 0 THEN <<a \div b, a % b>>
    ELSE Val({ Val({ <<x[1] * 2 ^ j + (x[2] * 2 ^ j) \div b, (x[2] * 2 ^ j) % b>>
                     : x \in {FixDiv(a, b, k - j)} })
               : j \in {IF k < 7 THEN k ELSE 7} })

\* the float quotient a / b of a finite float a: the exact quotient, rounded;
\* x / 0 is an infinity and x / inf is 0
FloatDiv(a, b) ==
    IF IsInf(b) \/ a[1] = 0 THEN <<0, 0>>
    ELSE IF b[1] = 0 THEN Inf(Sgn(a[1]))
    ELSE Val({ FloatRound(Sgn(a[1]) * Sgn(b[1]) * (2 * x[1] + (IF x[2] # 0 THEN 1 ELSE 0)),
                          a[2] - b[2] - 27)
               : x \in {FixDiv(Abs(a[1]), Abs(b[1]), 26)} })

\* the float sum a + b of finite floats: the exact sum, rounded.  The
\* operand of the smaller exponent is aligned five bits below the other one;
\* what falls below that is kept as one sticky bit.
FloatAdd(a, b) ==
    IF a[1] = 0 THEN b
    ELSE IF b[1] = 0 THEN a
    ELSE Val({ Val({ IF g <= 5 THEN FloatRound(h[1][1] * 2 ^ g + h[2][1], h[2][2])
                     ELSE Val({ FloatRound(2 * (h[1][1] * 32 + lo[1]) + lo[2], h[1][2] - 6)
                                : lo \in {IF g - 5 >= 30
                                          THEN <<IF h[2][1] < 0 THEN 0 - 1 ELSE 0, 1>>
                                          ELSE <<h[2][1] \div 2 ^ (g - 5),
                                                 IF h[2][1] % 2 ^ (g - 5) # 0 THEN 1 ELSE 0>>} })
                     : g \in {h[1][2] - h[2][2]} })
               : h \in {IF a[2] >= b[2] THEN <<a, b>> ELSE <<b, a>>} })
FloatSub(a, b) == FloatAdd(a, <<0 - b[1], b[2]>>)
FloatTwice(a) == IF a[1] = 0 THEN a ELSE <<a[1], a[2] + 1>>

\* a < b on floats
Less(a, b) ==
    IF a[1] = 0 \/ b[1] = 0 \/ Sgn(a[1]) # Sgn(b[1]) THEN a[1] < b[1]
    ELSE IF a[1] > 0 THEN a[2] < b[2] \/ (a[2] = b[2] /\ a[1] < b[1])
    ELSE a[2] > b[2] \/ (a[2] = b[2] /\ a[1] < b[1])

\* (int) ceil(x) of a finite float x below 2^31
CeilFloat(x) ==
    IF x[2] >= 0 THEN x[1] * 2 ^ x[2]
    ELSE IF x[2] <= 0 - 30 THEN (IF x[1] > 0 THEN 1 ELSE 0)
    ELSE 0 - ((0 - x[1]) \div 2 ^ (0 - x[2]))

\* (long) round(x) of a finite float x of magnitude below 2^31: halves go
\* away from zero
RoundLong(x) ==
    IF x[2] >= 0 THEN x[1] * 2 ^ x[2]
    ELSE IF x[2] <= 0 - 30 THEN 0
    ELSE Sgn(x[1]) * ((Abs(x[1]) + 2 ^ (0 - x[2] - 1)) \div 2 ^ (0 - x[2]))

\* (long) round(x) of an infinite x, or of one that no long holds, is
\* undefined: the conversion yields the least long, 0 or the greatest long;
\* a value below every lag, 0, and a value above every lag stand for them
RoundUB == {0 - 2 ^ 30, 0, 2 ^ 30}

\* A frame is a function from positions to samples; the samples at the
\* positions it leaves out are 0.  Sample j:
X(fr, j) == IF j \in DOMAIN fr THEN fr[j] ELSE 0

\* D[a] + ... + D[b], by halves
RECURSIVE SumRange(_, _, _)
SumRange(D, a, b) ==
    IF a > b THEN 0
    ELSE IF a = b THEN D[a]
    ELSE Val({ SumRange(D, a, m) + SumRange(D, m + 1, b) : m \in {(a + b) \div 2} })

\* the inner loop of YIN.h:239-243 at lag tau: the sum over j < L of
\* (frame[j] - frame[j + tau])^2, an integer (exact in float below 2^24)
Diff(fr, L, tau) ==
    SumRange([j \in 0 .. L - 1 |-> (X(fr, j) - X(fr, j + tau)) ^ 2], 0, L - 1)

\* YIN::cumulativeMeanNormalisedDifferenceFunction; delta[i] is at index
\* i + 1.  D holds the sums of the inner loop, C the cumulativeSum after each
\* lag; delta[tau] = D * tau / C when C > 0, and delta[0] = 1 at the end.
\* exact: the cumulative sum stays below 2^24, so the float sums are the
\* integer sums.
cumulativeMeanNormalisedDifferenceFunction(fr, L) ==
    Val({ Val({ [delta |-> [t \in 1 .. L |->
                               IF t = 1 THEN FloatOfInt(1)
                               ELSE IF C[t] > 0
                                    THEN FloatDiv(FloatOfInt(D[t] * (t - 1)), FloatOfInt(C[t]))
                                    ELSE FloatOfInt(D[t])] \o <<>>,
                 exact |-> C[L] < 2 ^ 24]
                : C \in {[t \in 1 .. L |-> SumRange(D, 1, t)] \o <<>>} })
          : D \in {[t \in 1 .. L |-> Diff(fr, L, t - 1)] \o <<>>} })

\* delta[i] < delta[i - 1] && delta[i] < delta[i + 1]
StrictMin(dl, i) == Less(dl[i + 1], dl[i]) /\ Less(dl[i + 1], dl[i + 2])

\* YIN::searchForOtherRecentMinima: the last of the three lags that is a
\* strict local minimum, -1 for none
searchForOtherRecentMinima(dl, L, prevEst) ==
    LET Q == {i \in prevEst - 1 .. prevEst + 1 : i > 0 /\ i < L - 1 /\ StrictMin(dl, i)}
    IN IF Q = {} THEN 0 - 1 ELSE CHOOSE i \in Q : \A j \in Q : j <= i

\* the local minPeriod of getPeriodCandidate and its thresh, the float 0.1
ScanFloor == 30
Thresh == FloatDiv(FloatOfInt(1), FloatOfInt(10))

\* YIN::getPeriodCandidate: the first scanned lag below thresh that is a
\* strict local minimum, else minInd, the first lag holding the least value
\* below minVal = 100000 (0 when the loop found none)
getPeriodCandidate(dl, L) ==
    LET scanned == ScanFloor .. L - 2
        T == {i \in scanned : Less(dl[i + 1], Thresh) /\ StrictMin(dl, i)}
        M == {i \in scanned : /\ Less(dl[i + 1], FloatOfInt(100000))
                              /\ \A j \in scanned : ~Less(dl[j + 1], dl[i + 1])}
    IN IF T # {} THEN CHOOSE i \in T : \A j \in T : i <= j
       ELSE IF M # {} THEN CHOOSE i \in M : \A j \in M : i <= j
       ELSE 0

\* the float nearest to period + a / b for finite floats a and b # 0: the
\* sum is formed with t binary places, the rest kept as one sticky bit
\* (YIN.h:170 forms quotient and sum in double and narrows the result; an
\* offset above 2^26 is taken for the sum)
PeriodPlus(period, a, b) ==
    IF a[1] = 0 THEN FloatOfInt(period)
    ELSE Val({ IF t < 0 THEN FloatDiv(a, b)
               ELSE Val({ FloatRound(2 * (IF Sgn(a[1]) = Sgn(b[1]) THEN period * 2 ^ t + q[1]
                                          ELSE period * 2 ^ t - q[1] - q[2]) + q[2],
                                     0 - t - 1)
                          : q \in {IF t + a[2] - b[2] < 0 THEN <<0, 1>>
                                   ELSE Val({ <<x[1], IF x[2] # 0 THEN 1 ELSE 0>>
                                              : x \in {FixDiv(Abs(a[1]), Abs(b[1]),
                                                              t + a[2] - b[2])} })} })
               : t \in {27 - (IF period > 0 /\ Log2(period) >= a[2] - b[2]
                              THEN Log2(period) + 1 ELSE a[2] - b[2] + 1)} })

\* YIN::parabolicInterpolation: the refined period and the divisor
\* 2*y2 - y3 - y1 it evaluated (1 when it evaluated none)
parabolicInterpolation(period, y1, y2, y3) ==
    IF y3 = y2 /\ y2 = y1 THEN [newPeriod |-> FloatOfInt(period), divisor |-> FloatOfInt(1)]
    ELSE Val({ [newPeriod |-> IF dv[1] = 0 THEN Inf(Sgn(FloatSub(y3, y1)[1]))
                              ELSE PeriodPlus(period, FloatSub(y3, y1), FloatTwice(dv)),
                divisor   |-> dv]
               : dv \in {FloatSub(FloatSub(FloatTwice(y2), y3), y1)} })

\* YIN::setMaxFrequency: minPeriod = (int) ceil(((float) fs) / maxFreq)
setMaxFrequency(fs, maxFreq) ==
    CeilFloat(FloatDiv(FloatOfInt(fs), FloatOfInt(IF maxFreq <= 200 THEN 2000 ELSE maxFreq)))
\* the minPeriod the constructor's setMaxFrequency(1500) leaves, and
\* YIN::getMaxFrequency
minPeriod(fs) == setMaxFrequency(fs, 1500)
getMaxFrequency(fs) == FloatDiv(FloatOfInt(fs), FloatOfInt(minPeriod(fs)))

\* YIN::pitchYin on frame fr, prevEst being (long) round(prevPeriodEstimate);
\* the pitch is periodToPitch of the refined period
pitchYin(fr, framesz, fs, prevEst) ==
    Val({ Val({ Val({ Val({
        [delta |-> dl.delta, exact |-> dl.exact, prevEst |-> prevEst,
         continuityPeriod |-> c, period |-> period,
         divisor |-> pi.divisor, prevPeriodEstimate |-> pi.newPeriod,
         pitch |-> FloatDiv(FloatOfInt(fs), pi.newPeriod)]
        : pi \in {IF period > 0 /\ period < framesz \div 2 - 1
                  THEN parabolicInterpolation(period, dl.delta[period], dl.delta[period + 1],
                                              dl.delta[period + 2])
                  ELSE [newPeriod |-> FloatOfInt(period), divisor |-> FloatOfInt(1)]} })
        : period \in {IF c = 0 - 1 THEN getPeriodCandidate(dl.delta, framesz \div 2) ELSE c} })
        : c \in {searchForOtherRecentMinima(dl.delta, framesz \div 2, prevEst)} })
        : dl \in {cumulativeMeanNormalisedDifferenceFunction(fr, framesz \div 2)} })

\* the frame that holds the samples seq[1], seq[2], ... at positions 0, 1, ...
FrameOf(seq) == [j \in 0 .. Len(seq) - 1 |-> seq[j + 1]]

\* a 128-sample frame of a tone of about 31 samples per cycle with a weak
\* alternating component
ToneFrame ==
    FrameOf(
    <<
      3, 5, 19, 19, 32, 30, 41, 36, 43, 35, 39, 29, 30, 17, 16, 1,
      0, -14, -15, -29, -28, -38, -34, -42, -36, -40, -31, -33, -21, -20, -7, -4,
      10, 12, 25, 24, 36, 34, 42, 37, 43, 33, 36, 24, 25, 11, 8, -5,
      -6, -20, -21, -33, -31, -41, -36, -43, -35, -39, -28, -29, -14, -14, 0, 0,
      16, 17, 29, 28, 40, 35, 43, 35, 41, 30, 31, 19, 19, 4, 4, -11,
      -12, -28, -26, -37, -35, -43, -37, -42, -34, -35, -22, -23, -9, -8, 7, 8,
      22, 23, 33, 32, 42, 37, 43, 35, 38, 27, 27, 13, 13, -4, -3, -18,
      -17, -31, -30, -40, -36, -43, -36, -40, -30, -31, -18, -18, -3, -2, 13, 14 >>)

\* frames of framesz samples a caller passes, by their non-zero samples:
\* silence, a click late in the frame, pulse trains of period 2 and 3, and
\* per frame size pulse trains of longer periods, a rising tail and the tone
PitchFrames(framesz) ==
    {<<>>,
     (33 :> 1),
     (0 :> 2) @@ (2 :> 1) @@ (4 :> 2) @@ (6 :> 1) @@ (8 :> 2),
     (0 :> 1) @@ (3 :> 1) @@ (6 :> 1) @@ (9 :> 1)}
    \cup (IF framesz = 64
          THEN {(0 :> 1) @@ (30 :> 1) @@ (60 :> 1),
                (55 :> 1) @@ (56 :> 1) @@ (60 :> 5) @@ (61 :> 9) @@ (62 :> 18)}
          ELSE {})
    \cup (IF framesz = 128
          THEN {(0 :> 1) @@ (30 :> 1) @@ (60 :> 1),
                (0 :> 1) @@ (40 :> 1) @@ (80 :> 1) @@ (120 :> 1),
                (5 :> 2) @@ (50 :> 2) @@ (95 :> 2),
                ToneFrame}
          ELSE {})

YinConfigs ==
    {[DefaultConfigValue EXCEPT !.fftlength = n, !.samplefreq = f]
       : n \in {32, 64, 128}, f \in SampleFreqs}

\* prevPeriodEstimate of the engine's YIN object: 1.0 from its constructor
\* (YIN.h:37), which Begin() runs, then what the last pitchYin stored
prevPeriodEstimate ==
    IF lastOp.op = "getPitch" /\ lastOp.arg # <<>> THEN lastOp.val.yin.prevPeriodEstimate
    ELSE FloatOfInt(1)

\* getPitch(Signal) on a caller's frame with content fr: the values.  last
\* is the frame and the result of the call before, if that was a getPitch.
GetPitchOn(e) ==
    /\ ~crashed /\ eng[e].status = "alive" /\ eng[e].initialized
    /\ \E fr \in PitchFrames(eng[e].Config.fftlength),
          prevEst \in (IF ~IsInf(prevPeriodEstimate) /\ prevPeriodEstimate[2] <= 7
                       THEN {RoundLong(prevPeriodEstimate)}
                       ELSE RoundUB) :
          \E r \in {pitchYin(fr, eng[e].Config.fftlength, eng[e].Config.samplefreq, prevEst)} :
             /\ r.exact
             /\ FrameStep("getPitch", e, getPitch(e, eng[e]),
                          [NoOp EXCEPT !.arg = <<fr>>,
                                       !.val = [yin |-> r,
                                                last |-> IF lastOp.op = "getPitch"
                                                         THEN <<lastOp.arg[1], lastOp.val.yin.pitch>>
                                                         ELSE <<>>]],
                          FALSE)

NextYin ==
    \/ Analyzer_cfg(1, YinConfigs, {{}})
    \/ GetPitchOn(1)

SpecYin == Init /\ [][NextYin]_vars

(* --------------------- getSignature: the values ----------------------- *)
\* the boundaries getSignature reads through Config.ranges
RangesInEffect(a, DR) ==
    CASE a.Config.ranges = "DefaultRanges" -> DR
      [] a.Config.ranges = "CustomRanges"  -> CustomRanges
      [] OTHER -> <<>>

\* mag = log(fabs(bins[i]) + 1) (Analyzer.cpp:308): the float nearest to the
\* natural logarithm of 1, 2, 4, 9 and 10, for the magnitudes 0, 1, 3, 8 and
\* 9 the bins of SignatureSpectra hold
LogMagnitude(b) ==
    CASE Abs(b) = 0 -> <<0, 0>>
      [] Abs(b) = 1 -> <<11629080, -24>>
      [] Abs(b) = 3 -> <<11629080, -23>>
      [] Abs(b) = 8 -> <<9215828, -22>>
      [] Abs(b) = 9 -> <<9657742, -22>>

\* the lambda rangeIndex (Analyzer.cpp:294-300); ranges[r] is ranges[r + 1] here
rangeIndex(ranges, numranges, idx) ==
    IF \E r \in 0 .. numranges - 1 : ranges[r + 1] > idx
    THEN CHOOSE r \in 0 .. numranges - 1 :
            ranges[r + 1] > idx /\ \A q \in 0 .. r - 1 : ~(ranges[q + 1] > idx)
    ELSE numranges - 1

\* Fr = (float) samplefreq / fftlength (Analyzer.cpp:89) from the member Fr
FrFloat(Fr) == FloatDiv(FloatOfInt(Fr[1]), FloatOfInt(Fr[2]))

\* frequency(bin) = bin * Fr (SoundAnalyzer.h:83): the float product, for a
\* bin whose product with the odd part of Fr's significand is below 2^31
frequency(bin, Fr) ==
    Val({ FloatRound(bin * (Fr[1] \div 2 ^ t), Fr[2] + t) : t \in {TwoPart(Fr[1])} })

\* int(x) for a float 0 <= x < 2^31: the fraction is dropped
IntOf(x) ==
    IF x[2] >= 0 THEN x[1] * 2 ^ x[2]
    ELSE IF 0 - x[2] > 24 THEN 0
    ELSE x[1] \div 2 ^ (0 - x[2])

\* (signature_t) int(frequency(i)) (Analyzer.cpp:311); signature_t is
\* unsigned short (AnalyzerConfig.h:9)
SignatureOf(bin, Fr) == IntOf(frequency(bin, Fr)) % 2 ^ 16

\* the bins of range r that the loop of Analyzer.cpp:305-314 visits, among
\* the bins of the array c that are not zero
RangeBins(c, NumBins, ranges, numranges, r) ==
    {i \in DOMAIN c : i >= 1 /\ i < NumBins /\ rangeIndex(ranges, numranges, i) = r}

\* the bin of B at which `mag > mags[r]` succeeds last: the first bin of the
\* largest log-magnitude, 0 when no bin of B has a log-magnitude above 0
PeakBin(c, B) ==
    IF \A i \in B : ~Less(<<0, 0>>, LogMagnitude(c[i])) THEN 0
    ELSE CHOOSE i \in B :
            /\ \A j \in B : ~Less(LogMagnitude(c[i]), LogMagnitude(c[j]))
            /\ \A j \in B : j < i => Less(LogMagnitude(c[j]), LogMagnitude(c[i]))

\* avg += mags[i] for i = 0 .. k - 1 (Analyzer.cpp:316), in float
RECURSIVE FloatSum(_, _)
FloatSum(mags, k) ==
    IF k = 0 THEN <<0, 0>>
    ELSE Val({ FloatAdd(s, mags[k]) : s \in {FloatSum(mags, k - 1)} })

\* Analyzer<T>::getSignature on the array c with NumBins bins: the peak bin
\* and log-magnitude of every range, the mean and Signature.  The mean
\* (avg * 1.0) / i is a double quotient stored in a float; the quotient of a
\* float by an integer below 2^27 is never so close to the middle of two
\* floats that the two roundings differ from the single one of FloatDiv.
SignatureValues(c, NumBins, ranges, numranges, Fr) ==
    Val({ Val({ Val({
         [peak |-> peak, mags |-> mags, avg |-> avg,
          sig  |-> [r \in 1 .. numranges |->
                       IF peak[r] = 0 \/ Less(mags[r], avg) THEN 0
                       ELSE SignatureOf(peak[r], Fr)] \o <<>>]
         : avg \in {FloatDiv(FloatSum(mags, numranges), FloatOfInt(numranges))} })
         : mags \in {[r \in 1 .. numranges |->
                        IF peak[r] = 0 THEN <<0, 0>> ELSE LogMagnitude(c[peak[r]])] \o <<>>} })
         : peak \in {[r \in 1 .. numranges |->
                        PeakBin(c, RangeBins(c, NumBins, ranges, numranges, r - 1))] \o <<>>} })

\* spectra of a caller: the bins named hold the magnitude given, every
\* other bin holds 0.  Bins 3, 7, 15, 30, 60 and 100 lie in the six ranges of
\* the default profile, bin 300 beyond the boundaries of CustomRanges.
SignatureSpectra ==
    {[i \in {3, 7, 15} |-> m[i]] : m \in [{3, 7, 15} -> {0, 3, 9}]}
    \cup {(3 :> 9) @@ (7 :> 9) @@ (15 :> 9) @@ (30 :> 9) @@ (60 :> 9) @@ (100 :> last)
          : last \in {8, 9}}
    \cup {(0 :> 9) @@ (2 :> 3) @@ (4 :> 3) @@ (8 :> 1),
          (3 :> -9) @@ (6 :> 8) @@ (130 :> 8),
          (100 :> 3) @@ (200 :> 1) @@ (300 :> 8),
          (60 :> 9) @@ (200 :> 9)}
\* the len argument: 0 for the member NumBins
SignatureLens == {0, 64, 400}

\* configurations of the instance: every profile, length and sample rate
SignatureConfigs ==
    {cfg \in InputConfigs : cfg.sensitivity = ANALYZER_DEFAULT_MICSENS
                            /\ cfg.mfcccoeff = ANALYZER_DEFAULT_MFCC_COEFF}

\* getSignature(Spectrum, len) on a caller's array with content c
GetSignatureOn(e) ==
    /\ ~crashed /\ eng[e].status = "alive"
    /\ \E c \in SignatureSpectra, len \in SignatureLens :
          FrameStep("getSignature", e, getSignature(e, eng[e], CallerBuf, len),
                    [NoOp EXCEPT !.arg = <<c, len>>,
                                 !.val = IF eng[e].Config.numranges = 0 THEN <<>>
                                         ELSE SignatureValues(c, IF len = 0 THEN eng[e].NumBins ELSE len,
                                                              RangesInEffect(eng[e], DefaultRanges),
                                                              eng[e].Config.numranges,
                                                              FrFloat(eng[e].Fr))],
                    FALSE)

NextSignature ==
    \/ Analyzer_cfg(1, SignatureConfigs, {{}})
    \/ SetConfig(1, SignatureConfigs, {{}})
    \/ GetSignatureOn(1)

SpecSignature == Init /\ [][NextSignature]_vars

(* ------------------------------ properties --------------------------- *)
ConfigOps == {"Analyzer", "setConfig"}
FrameOps == {"rms", "decibelSPL", "getPitch", "doFft", "getFeatures", "getMfcc",
             "getSignature", "getSignatureHash"}

\* the pointer members of engine members a
Identities(a) ==
    <<a.signal, a.spectrum, a.Bins, a.Signature, a.FFT, a.mfcc, a.Mfccs, a.yin>>

\* x is a live allocation of n elements
HoldsN(x, n) == Live(heap, x) /\ heap[x].n = n

\* the buffers engine e owns: the live allocations its members point to, and
\* its Features array
Owned(e) ==
    {id \in AllIds : Live(heap, id) /\ \E k \in Kinds : eng[e][k] = id}
        \cup {FeaturesOf(e)}

\* C1: a setConfig on an initialized engine whose new configuration has the
\* fftlength, samplefreq, numranges and mfcccoeff of the current one
\* releases nothing and allocates nothing, and signal, spectrum, Bins,
\* Signature, FFT, mfcc, Mfccs and yin are after the call what they were
\* before it.
C1_SameSizingKeepsBuffers ==
    [][\A e \in Engines :
          (/\ lastOp'.op = "setConfig" /\ lastOp'.e = e
           /\ eng[e].initialized
           /\ eng'[e].Config.fftlength = eng[e].Config.fftlength
           /\ eng'[e].Config.samplefreq = eng[e].Config.samplefreq
           /\ eng'[e].Config.numranges = eng[e].Config.numranges
           /\ eng'[e].Config.mfcccoeff = eng[e].Config.mfcccoeff)
          => (/\ Identities(eng'[e]) = Identities(eng[e])
              /\ heap' = heap
              /\ lastOp'.allocs = 0 /\ lastOp'.frees = 0
              /\ ~lastOp'.trapped)]_vars

\* an initialized engine took a setConfig that changed only the sensitivity
\* and neither released nor allocated
C1_Witness ==
    /\ lastOp.op = "setConfig" /\ lastOp.e = 1
    /\ eng[1].initialized
    /\ eng[1].Config.sensitivity = 0
    /\ lastOp.allocs = 0 /\ lastOp.frees = 0
    /\ Live(heap, eng[1].signal)

\* C2 (as the specification states it): after a configuration call in which
\* an allocation failed, the engine is not initialized, none of signal,
\* spectrum, FFT, mfcc, Signature, yin is allocated, and nothing the engine
\* allocated is still live.
C2_FailureTearsDown ==
    \A e \in Engines :
        (lastOp.op \in ConfigOps /\ lastOp.e = e /\ lastOp.failed /\ ~lastOp.trapped)
        => (/\ ~eng[e].initialized
            /\ \A k \in Kinds : eng[e][k] = nullptr
            /\ \A id \in IdsOf(e) : ~Live(heap, id))

\* C3 (as the specification states it): after a configuration with sample
\* rate 8192, length 512, 13 coefficients and the default 6-range profile is
\* applied, the range boundaries are {10,20,40,80,160,512} and the fuzz
\* factor is 64.
IsC3Config(c) ==
    /\ c.samplefreq = 8192 /\ c.fftlength = 512 /\ c.mfcccoeff = 13
    /\ c.numranges = 6 /\ c.ranges = "DefaultRanges"

C3_Original ==
    \A e \in Engines :
        (lastOp.op \in ConfigOps /\ lastOp.e = e /\ ~lastOp.trapped
         /\ IsC3Config(eng[e].Config))
        => (DefaultRanges = ANALYZER_DEFAULT_RANGES_512 /\ eng[e].Config.fuzzfactor = 64)

\* C3 (amended): applying that configuration rescales nothing, 512 being the
\* default length: the call leaves the boundaries of the default profile as
\* they were, which is {5,10,20,40,80,256} when no earlier call rescaled
\* them, and the fuzz factor is the 32 the configuration supplied.
C3_NoRescaleAtDefaultLength ==
    [][\A e \in Engines :
          (lastOp'.op \in ConfigOps /\ lastOp'.e = e /\ IsC3Config(eng'[e].Config))
          => (/\ DefaultRanges' = DefaultRanges
              /\ eng'[e].Config.fuzzfactor = ANALYZER_DEFAULT_FUZZFACTOR
              /\ (rescales = 0 => DefaultRanges' = ANALYZER_DEFAULT_RANGES_256))]_vars

\* the configuration of C3 was applied to an engine and the boundaries are
\* those of the length-512 default
C3_Witness ==
    /\ lastOp.op \in ConfigOps /\ lastOp.e = 1 /\ ~lastOp.trapped
    /\ IsC3Config(eng[1].Config)
    /\ eng[1].initialized
    /\ DefaultRanges = <<5, 10, 20, 40, 80, 256>>
    /\ eng[1].Config.fuzzfactor = 32

\* C4 (as the specification states it): an initialized engine holds signal
\* and spectrum of fftlength elements, a Signature of numranges elements,
\* cepstral coefficients of mfcccoeff elements and a YIN difference array of
\* fftlength/2 elements.
C4_SizedToConfig ==
    \A e \in Engines :
        (eng[e].status = "alive" /\ eng[e].initialized /\ ~crashed)
        => (/\ HoldsN(eng[e].signal, eng[e].Config.fftlength)
            /\ HoldsN(eng[e].spectrum, eng[e].Config.fftlength)
            /\ eng[e].Config.numranges > 0
                  => HoldsN(eng[e].Signature, eng[e].Config.numranges)
            /\ eng[e].Config.mfcccoeff > 0
                  => HoldsN(eng[e].mfcc, eng[e].Config.mfcccoeff)
            /\ HoldsN(eng[e].yin, eng[e].Config.fftlength \div 2))

\* C5 (as the specification states it): what getConfig returns is the
\* configuration of the engine it is called on.
C5_ReturnsCurrent ==
    \A e \in Engines :
        (lastOp.op = "getConfig" /\ lastOp.e = e) => getConfig_cfg = eng[e].Config

\* C6 (as the specification states it): with a sensitivity of 0 decibelSPL
\* returns 0, divides by nothing and converts no undefined value.
C6_ZeroSensitivityIsNoOp ==
    \A e \in Engines :
        (lastOp.op = "decibelSPL" /\ lastOp.e = e /\ eng[e].Config.sensitivity = 0)
        => (lastOp.ret = 0 /\ lastOp.fp = "none" /\ lastOp.divisor # 0)

\* C7: getMfcc returns nullptr when mfcccoeff is 0 and getSignature returns
\* nullptr when numranges is 0, whatever the spectrum and length arguments,
\* and neither goes through any pointer or writes anything on the way.
C7_DisabledReturnsNull ==
    \A e \in Engines :
        /\ (lastOp.op = "getMfcc" /\ lastOp.e = e /\ eng[e].Config.mfcccoeff = 0)
           => (lastOp.ret = nullptr /\ lastOp.derefs = {} /\ lastOp.writes = {}
               /\ ~lastOp.trapped)
        /\ (lastOp.op = "getSignature" /\ lastOp.e = e /\ eng[e].Config.numranges = 0)
           => (lastOp.ret = nullptr /\ lastOp.derefs = {} /\ lastOp.writes = {}
               /\ ~lastOp.trapped)

\* getSignature returned nullptr on an engine configured without ranges
C7_Witness ==
    /\ lastOp.op = "getSignature" /\ lastOp.e = 1
    /\ eng[1].Config.numranges = 0
    /\ eng[1].initialized
    /\ lastOp.ret = nullptr /\ lastOp.derefs = {}

\* two successive getSignatureHash calls of one engine on signatures of the
\* same length
HashPair ==
    /\ lastOp.op = "getSignatureHash" /\ lastOp'.op = "getSignatureHash"
    /\ ~lastOp.trapped /\ ~lastOp'.trapped
    /\ lastOp.e = lastOp'.e
    /\ Len(lastOp.sig) = Len(lastOp'.sig)

\* C8 (as the specification states it): two signatures that differ in one
\* value, by less than the fuzz factor, have the same hash.
C8_Original ==
    [][\A e \in Engines :
          (/\ HashPair /\ lastOp.e = e
           /\ Cardinality({i \in DOMAIN lastOp.sig : lastOp.sig[i] # lastOp'.sig[i]}) <= 1
           /\ \A i \in DOMAIN lastOp.sig :
                 Abs(lastOp.sig[i] - lastOp'.sig[i]) < eng[e].Config.fuzzfactor)
          => lastOp'.hash = lastOp.hash]_vars

\* C8 (amended): two signatures whose corresponding values lie in the same
\* fuzz bucket (equal quotients by the fuzz factor) have the same hash.
C8_SameBucketSameHash ==
    [][\A e \in Engines :
          (/\ HashPair /\ lastOp.e = e
           /\ \A i \in DOMAIN lastOp.sig :
                 lastOp.sig[i] \div eng[e].Config.fuzzfactor
                    = lastOp'.sig[i] \div eng[e].Config.fuzzfactor)
          => lastOp'.hash = lastOp.hash]_vars

\* a signature starting with 33 was hashed with fuzz factor 32, and its hash
\* is that of the signature starting with 32
C8_Witness ==
    /\ lastOp.op = "getSignatureHash" /\ lastOp.e = 1 /\ ~lastOp.trapped
    /\ eng[1].Config.fuzzfactor = 32
    /\ Len(lastOp.sig) = 6
    /\ lastOp.sig[1] = 33
    /\ lastOp.hash = signatureHash([lastOp.sig EXCEPT ![1] = 32], 6, 0, 32)
    /\ lastOp.hash # signatureHash([lastOp.sig EXCEPT ![1] = 31], 6, 0, 32)

\* C9 (as the specification states it): once an engine is destroyed,
\* nothing it allocated is still live.
C9_AllReleased ==
    \A e \in Engines :
        (eng[e].status = "destroyed" /\ ~crashed)
        => \A id \in IdsOf(e) : ~Live(heap, id)

\* C10 (as the specification states it): a per-frame operation allocates
\* and releases nothing, leaves signal, spectrum, Signature, FFT, mfcc, yin
\* and initialized as they were, and writes only into buffers the engine
\* owns.
C10_FrameOpsKeepBuffers ==
    [][\A e \in Engines :
          (lastOp'.op \in FrameOps /\ lastOp'.e = e /\ ~lastOp'.trapped)
          => (/\ \A k \in Kinds : eng'[e][k] = eng[e][k]
              /\ eng'[e].initialized = eng[e].initialized
              /\ heap' = heap
              /\ lastOp'.writes \subseteq Owned(e))]_vars

\* C11: getFeatures on a spectrum whose bins 1..N-1 are all zero yields average
\* magnitude 0, crest 1, kurtosis -3 and rolloff 0, for every bin count N and
\* every rolloff percentile (bin 0 may hold anything: no loop visits it)
C11_ZeroSpectrum ==
    (lastOp.op = "getFeatures" /\ lastOp.arg # <<>>
     /\ \A i \in 1 .. lastOp.arg[2] - 1 : Bin(lastOp.arg[1], i) = 0)
    => /\ lastOp.val.avgmag = <<0, 1>>
       /\ lastOp.val.crest = <<1, 1>>
       /\ lastOp.val.kurtosis = <<-3, 1>>
       /\ lastOp.val.rolloff = <<0, 1>>

C11_Witness ==
    /\ lastOp.op = "getFeatures" /\ lastOp.arg # <<>>
    /\ lastOp.arg[2] = MaxBins
    /\ Bin(lastOp.arg[1], 0) = 3
    /\ \A i \in 1 .. MaxBins - 1 : Bin(lastOp.arg[1], i) = 0
    /\ eng[1].Config.roloffpercentile = ANALYZER_DEFAULT_ROLLOFF_PERCENTILE
    /\ lastOp.val.kurtosis = <<-3, 1>>

C13_ScaledToLength ==
    \A e \in Engines :
        (lastOp.op \in ConfigOps /\ lastOp.e = e /\ ~lastOp.trapped
         /\ eng[e].Config.ranges = "DefaultRanges")
        => /\ DefaultRanges = Rescaled(ANALYZER_DEFAULT_RANGES_256, eng[e].Config.numranges,
                                        eng[e].Config.fftlength)
           /\ eng[e].Config.fuzzfactor = RescaledFuzz(eng[e].Config.fftlength)

\* C14: applying a configuration to one engine never changes the range
\* boundaries another engine's getSignature uses, nor the values of the default
\* configuration that defaultConfig returns afterwards
C14_NoAliasing ==
    [][\A a, b \in Engines :
          (a # b /\ lastOp'.op \in ConfigOps /\ lastOp'.e = b /\ eng[a].status = "alive")
          => /\ RangesInEffect(eng'[a], DefaultRanges') = RangesInEffect(eng[a], DefaultRanges)
             /\ DefaultRanges' = DefaultRanges]_vars

\* C15: the rolloff feature is i/N for the first bin i in 1..N-1 at which the
\* cumulative magnitude of bins 1..i exceeds roloffpercentile times the total
\* magnitude of bins 1..N-1, and is 0 only if no bin crosses that threshold
C15_RolloffAtCrossing ==
    (lastOp.op = "getFeatures" /\ lastOp.arg # <<>>)
    => LET c == lastOp.arg[1]
           N == lastOp.arg[2]
           pct == eng[lastOp.e].Config.roloffpercentile
           cum(i) == SumOver([j \in 1 .. i |-> Bin(c, j)], 1 .. i)
           crossing == {i \in 1 .. N - 1 : cum(i) * 100 > pct * cum(N - 1)}
       IN lastOp.val.rolloff =
             IF crossing = {} THEN <<0, 1>>
             ELSE Rat(CHOOSE i \in crossing : \A j \in crossing : i <= j, N)

\* C16: the parabolic refinement never evaluates a zero denominator
\* 2*y2 - y3 - y1, so the persisted previous-period estimate and the returned
\* frequency are always finite
C16_NoZeroDenominator ==
    (/\ lastOp.op = "getPitch" /\ lastOp.arg # <<>>
     /\ lastOp.val.yin.period > 0
     /\ lastOp.val.yin.period < eng[lastOp.e].Config.fftlength \div 2 - 1)
    => /\ lastOp.val.yin.divisor[1] # 0
       /\ ~IsInf(lastOp.val.yin.prevPeriodEstimate)
       /\ ~IsInf(lastOp.val.yin.pitch)

\* C17: pitchYin never returns a frequency above the maximum frequency that
\* getMaxFrequency reports: the lag it selects is never smaller than the
\* minimum period setMaxFrequency derived
C17_BelowMaxFrequency ==
    (lastOp.op = "getPitch" /\ lastOp.arg # <<>>)
    => /\ ~Less(getMaxFrequency(eng[lastOp.e].Config.samplefreq), lastOp.val.yin.pitch)
       /\ lastOp.val.yin.period >= minPeriod(eng[lastOp.e].Config.samplefreq)

\* the difference function dl of a frame of 2 * L samples has a strict
\* interior local minimum below 0.1 at some lag of at least 30
HasPeriodCandidate(dl, L) ==
    \E i \in ScanFloor .. L - 2 : Less(dl[i + 1], Thresh) /\ StrictMin(dl, i)

\* C18: when a frame whose difference function has a strict interior local
\* minimum below 0.1 at a lag of at least 30 is passed to two consecutive
\* pitchYin calls, the second call returns the frequency the first returned
\* and takes its lag from the continuity search, not from a fresh scan
C18_SameFrameTwice ==
    (/\ lastOp.op = "getPitch" /\ lastOp.arg # <<>>
     /\ lastOp.val.last # <<>>
     /\ lastOp.val.last[1] = lastOp.arg[1]
     /\ HasPeriodCandidate(lastOp.val.yin.delta, eng[lastOp.e].Config.fftlength \div 2))
    => /\ lastOp.val.yin.pitch = lastOp.val.last[2]
       /\ lastOp.val.yin.continuityPeriod # 0 - 1
       /\ lastOp.val.yin.period = lastOp.val.yin.continuityPeriod

\* C19: pitchYin selects its lag in this order: a lag among prevEst - 1,
\* prevEst, prevEst + 1 (prevEst = round(prevPeriodEstimate)) strictly between
\* 0 and framesz/2 - 1 that is a strict local minimum, if there is one;
\* otherwise the first lag from 30 upward below 0.1 that is a strict local
\* minimum; otherwise the lag of the global minimum over the scanned lags.
\* The difference function at lag 0 is 1 and lag 0 is never selected.
C19_SelectionOrder ==
    (lastOp.op = "getPitch" /\ lastOp.arg # <<>>)
    => LET y  == lastOp.val.yin
           dl == y.delta
           L  == eng[lastOp.e].Config.fftlength \div 2
           Q  == {i \in y.prevEst - 1 .. y.prevEst + 1 : i > 0 /\ i < L - 1 /\ StrictMin(dl, i)}
           S  == ScanFloor .. L - 2
           T  == {i \in S : Less(dl[i + 1], Thresh) /\ StrictMin(dl, i)}
       IN /\ dl[1] = FloatOfInt(1)
          /\ y.period # 0
          /\ IF Q # {} THEN y.period \in Q
             ELSE IF T # {} THEN y.period \in T /\ \A j \in T : y.period <= j
             ELSE y.period \in S /\ \A j \in S : ~Less(dl[j + 1], dl[y.period + 1])

\* the bins i in 1 .. N-1 of the array c whose range index is r (0-based):
\* the first r with ranges[r] > i, numranges-1 when no boundary exceeds i
BinsOfRange(c, N, R, n, r) ==
    {i \in 1 .. N - 1 :
        IF \E q \in 1 .. n : R[q] > i
        THEN R[r + 1] > i /\ \A q \in 1 .. r : R[q] <= i
        ELSE r = n - 1}

\* the largest magnitude among the bins of B, 0 for none
PeakMagnitude(c, B) ==
    IF B \cap DOMAIN c = {} THEN 0
    ELSE CHOOSE m \in {Abs(c[i]) : i \in B \cap DOMAIN c} :
            \A i \in B \cap DOMAIN c : Abs(c[i]) <= m

\* the product of f[1] .. f[k]
RECURSIVE ProductTo(_, _)
ProductTo(f, k) == IF k = 0 THEN 1 ELSE f[k] * ProductTo(f, k - 1)

\* C20: after getSignature, entry r of the signature is 0 or the
\* integer-truncated frequency of a bin of the largest magnitude among the
\* bins 1 .. N-1 of range r; it is 0 exactly when the range has no bin of
\* positive magnitude or its peak log-magnitude is below the mean of the
\* per-range peak log-magnitudes (log(p+1) is below the mean of n such
\* logarithms exactly when (p+1)^n is below their product), so the range of
\* the overall largest peak is never suppressed
C20_PeakOrSuppressed ==
    (lastOp.op = "getSignature" /\ lastOp.arg # <<>> /\ lastOp.ret # nullptr)
    => LET a == eng[lastOp.e]
           c == lastOp.arg[1]
           n == a.Config.numranges
           N == IF lastOp.arg[2] = 0 THEN a.NumBins ELSE lastOp.arg[2]
           R == RangesInEffect(a, DefaultRanges)
           p == [r \in 1 .. n |-> PeakMagnitude(c, BinsOfRange(c, N, R, n, r - 1))]
           below == [r \in 1 .. n |-> (p[r] + 1) ^ n < ProductTo([k \in 1 .. n |-> p[k] + 1], n)]
       IN \A r \in 1 .. n :
             /\ \/ lastOp.val.sig[r] = 0
                \/ \E i \in BinsOfRange(c, N, R, n, r - 1) \cap DOMAIN c :
                      /\ Abs(c[i]) = p[r]
                      /\ lastOp.val.sig[r] = (i * a.Config.samplefreq) \div a.Config.fftlength
             /\ lastOp.val.sig[r] = 0 <=> (p[r] = 0 \/ below[r])
             /\ (p[r] > 0 /\ \A k \in 1 .. n : p[k] <= p[r]) => lastOp.val.sig[r] # 0

\* the public views of the buffers (SoundAnalyzer.h:88-95)
Views == {"Bins", "Mfccs", "Signature"}

\* C21: every pointer End() releases holds a live allocation made by Begin()
\* of the same engine: in every reachable state each of signal, spectrum,
\* Signature, FFT, mfcc and yin of a constructed engine is null or a live
\* allocation of that engine, no call handed delete anything else, and while
\* the engine is initialized none of Bins, Mfccs and Signature refers to a
\* released buffer
C21_ReleasedAreLive ==
    /\ ~lastOp.wild
    /\ \A e \in Engines :
          eng[e].status = "alive"
          => /\ \A k \in Kinds :
                   eng[e][k] = nullptr \/ (eng[e][k] \in IdsOf(e) /\ Live(heap, eng[e][k]))
             /\ eng[e].initialized
                => \A v \in Views : eng[e][v] \in AllIds => Live(heap, eng[e][v])
====
